---- MODULE Spec2Model ----
(***************************************************************************)
(* chart-mcp-server (src/src/main_optimized.py): the colour theme system   *)
(* (ColorTheme.ELEGANT_PALETTES, get_elegant_color, get_palette_colors),   *)
(* the validate_and_parse_data decorator that wraps ten of the chart       *)
(* tools, the five tools without it, the naming and writing of the image   *)
(* files, and the image server.                                            *)
(*                                                                         *)
(* Spec follows one call at a time from its arguments to what it returns.  *)
(* ServerSpec follows tool invocations step by step, from the naming of    *)
(* the file to the return of its URL, interleaved with each other and with *)
(* the requests the image server thread answers.  PlotSpec follows the     *)
(* invocations of the matplotlib tools through the statements that touch   *)
(* pyplot's figures, interleaved with each other.                          *)
(*                                                                         *)
(* Python values are tagged records [t |-> <type name>, v |-> <payload>];  *)
(* a Python str is the sequence of its characters.  The optional string    *)
(* arguments of the colour resolver are TLA+ strings, NONE standing for    *)
(* Python's None.                                                          *)
(***************************************************************************)
EXTENDS Integers, Sequences, FiniteSets, TLC

VARIABLES op, args, ret, invoked, passed,
          escaped,       \* the exception the call in progress let out, NONE if none
          written,       \* the paths of the files the call in progress wrote
          registry,      \* ColorTheme.ELEGANT_PALETTES, a class attribute: a dict
                         \* every caller shares for as long as the process runs
          today,         \* the date datetime.now() reads
          files,         \* the output directory IMAGES_DIR
          calls,         \* the tool invocations followed step by step
          exchange,      \* the last request the image server answered, and its
                         \* response
          pyplot,        \* matplotlib.pyplot's figures, one set for the process
          diagrams       \* the invocations of the matplotlib tools followed
                         \* statement by statement

callVars == <<op, args, ret, invoked, passed, escaped, written>>
serverVars == <<files, calls, exchange>>
plotVars == <<pyplot, diagrams>>
vars == <<op, args, ret, invoked, passed, escaped, written, registry, today, files, calls,
          exchange, pyplot, diagrams>>

\* ------------------------------------------------------------------ bounds
\* largest count handed to get_palette_colors
MaxCount == 8
\* longest text of the exhaustively enumerated data strings
MaxTextLen == 2
\* number of tool invocations followed step by step next to the image server
MaxCalls == 2

\* ------------------------------------------------------- colour theme system
NONE == "<None>"

ELEGANT_PALETTES ==
    [ ocean  |-> [primary |-> "#0066CC", secondary |-> "#4A90E2", accent |-> "#7BB3FF",
                  light |-> "#E6F2FF",
                  gradient |-> <<"#0066CC", "#4A90E2", "#7BB3FF", "#A8CCFF", "#D4E6FF">>],
      sunset |-> [primary |-> "#FF6B6B", secondary |-> "#FF8E53", accent |-> "#FFB347",
                  light |-> "#FFF0E6",
                  gradient |-> <<"#FF6B6B", "#FF8E53", "#FFB347", "#FFD166", "#FFE6A6">>],
      forest |-> [primary |-> "#2D6A4F", secondary |-> "#52B788", accent |-> "#95D5B2",
                  light |-> "#E9F5EC",
                  gradient |-> <<"#2D6A4F", "#52B788", "#95D5B2", "#B7E4C7", "#D8F3DC">>],
      violet |-> [primary |-> "#5E60CE", secondary |-> "#7B68EE", accent |-> "#B4A7D6",
                  light |-> "#F0E6FF",
                  gradient |-> <<"#5E60CE", "#7B68EE", "#9B7BD8", "#B4A7D6", "#D1C4E9">>],
      coral  |-> [primary |-> "#FF7F7F", secondary |-> "#FF9999", accent |-> "#FFB3B3",
                  light |-> "#FFE6E6",
                  gradient |-> <<"#FF7F7F", "#FF9999", "#FFB3B3", "#FFCCCC", "#FFE6E6">>] ]

\* `not palette_name`: None and the empty string are falsy
Falsy(s) == s = NONE \/ s = ""

\* dict.get(key, default) on a dict with string keys
DictGet(d, key, default) == IF key \in DOMAIN d THEN d[key] ELSE default

SemanticPalette_salesFirst(chart_type, data_context) ==
    IF chart_type = "sales" \/ data_context = "sales" THEN "ocean"
    ELSE IF chart_type = "temperature" \/ data_context = "temperature" THEN "sunset"
    ELSE IF chart_type = "progress" \/ data_context = "progress" THEN "forest"
    ELSE IF chart_type = "comparison" \/ chart_type = "dual_axes" THEN "violet"
    ELSE NONE

\* the if/elif chain of lines 131-138; NONE when no branch matches (the else of line 139)
SemanticPalette(chart_type, data_context) ==
    IF chart_type = "temperature" \/ data_context = "temperature" THEN "sunset"
    ELSE IF chart_type = "sales" \/ data_context = "sales" THEN "ocean"
    ELSE IF chart_type = "progress" \/ data_context = "progress" THEN "forest"
    ELSE IF chart_type = "comparison" \/ chart_type = "dual_axes" THEN "violet"
    ELSE NONE

\* palette_mapping of lines 141-152
palette_mapping ==
    [ line |-> "ocean", column |-> "ocean", bar |-> "ocean", area |-> "sunset",
      pie |-> "coral", scatter |-> "violet", radar |-> "forest", histogram |-> "ocean",
      treemap |-> "sunset", dual_axes |-> "violet" ]

DefaultPaletteFor_pieOcean(chart_type) ==
    DictGet([palette_mapping EXCEPT !.pie = "ocean"], chart_type, "ocean")

\* palette_mapping.get(chart_type, "ocean"), line 153
DefaultPaletteFor(chart_type) == DictGet(palette_mapping, chart_type, "ocean")

ChosenPaletteName_ignoreExplicit(chart_type, palette_name, data_context) ==
    IF SemanticPalette(chart_type, data_context) # NONE
    THEN SemanticPalette(chart_type, data_context)
    ELSE DefaultPaletteFor(chart_type)

\* the value of palette_name after lines 130-153
ChosenPaletteName(chart_type, palette_name, data_context) ==
    IF Falsy(palette_name)
    THEN IF SemanticPalette(chart_type, data_context) # NONE
         THEN SemanticPalette(chart_type, data_context)
         ELSE DefaultPaletteFor(chart_type)
    ELSE palette_name

\* lines 113-164
get_elegant_color(chart_type, palette_name, data_context) ==
    LET name    == ChosenPaletteName(chart_type, palette_name, data_context)
        palette == DictGet(registry, name, registry["ocean"])
    IN  [ primary |-> palette.primary, secondary |-> palette.secondary,
          accent |-> palette.accent, light |-> palette.light,
          gradient |-> palette.gradient, palette_name |-> name ]

\* Python's seq[:n] for any integer n
SlicePrefix(seq, n) ==
    LET stop == IF n >= 0 THEN (IF n < Len(seq) THEN n ELSE Len(seq))
                ELSE (IF Len(seq) + n > 0 THEN Len(seq) + n ELSE 0)
    IN  SubSeq(seq, 1, stop)

ExtendedColors_noWrap(colors, count) ==
    [i \in 1..count |-> colors[IF i <= Len(colors) THEN i ELSE Len(colors)]]

\* the loop of lines 183-186 (i of range(count) is 0-based, sequences 1-based)
ExtendedColors(colors, count) ==
    [i \in 1..count |-> colors[((i - 1) % Len(colors)) + 1]]

\* lines 167-188
get_palette_colors(palette_name, count) ==
    LET palette == DictGet(registry, palette_name, registry["ocean"])
        colors  == palette.gradient
    IN  IF count > Len(colors) THEN ExtendedColors(colors, count)
        ELSE SlicePrefix(colors, count)

ThemeAfterPaletteColors_extendsInPlace(theme, palette_name, count) ==
    LET name == IF palette_name \in DOMAIN theme THEN palette_name ELSE "ocean"
    IN  IF count > Len(theme[name].gradient)
        THEN [theme EXCEPT ![name].gradient = ExtendedColors(@, count)]
        ELSE theme

\* ELEGANT_PALETTES after get_palette_colors: `colors` of line 179 is the list
\* inside the registry itself, and the function only reads it: the longer list
\* is built in the fresh extended_colors of line 183, and colors[:count] of
\* line 188 is a copy
ThemeAfterPaletteColors(theme, palette_name, count) == theme

\* ------------------------------------------------------------ Python values
PyNone == [t |-> "None", v |-> <<>>]
PyInt(n) == [t |-> "int", v |-> n]
PyStr(chars) == [t |-> "str", v |-> chars]
PyList(items) == [t |-> "list", v |-> items]
\* a dict is the sequence of its <<key, value>> items in insertion order
PyDict(items) == [t |-> "dict", v |-> items]
\* the float nan pandas puts in a cell no record fills
PyNaN == [t |-> "float", v |-> "nan"]
PyFrame(columns, rows) == [t |-> "DataFrame", v |-> [columns |-> columns, rows |-> rows]]

IsStr(x) == x.t = "str"
IsList(x) == x.t = "list"
IsDict(x) == x.t = "dict"
IsFrame(x) == x.t = "DataFrame"

\* dict item access helpers (keys are Python strings)
DictKeys(items) == [i \in 1..Len(items) |-> items[i][1]]
DictHas(items, key) == \E i \in 1..Len(items) : items[i][1] = key
DictValue(items, key) == items[CHOOSE i \in 1..Len(items) : items[i][1] = key][2]
\* d[key] = value: a repeated key keeps its place and takes the new value
DictSet(items, key, value) ==
    IF DictHas(items, key)
    THEN [i \in 1..Len(items) |-> IF items[i][1] = key THEN <<key, value>> ELSE items[i]]
    ELSE Append(items, <<key, value>>)

\* ------------------------------------------------------------- json.loads
\* json.loads(text) of the standard library, for texts over the characters
\* [ ] { } , : " space, the digits and letters: whitespace skipping, null,
\* integers, strings without escapes, arrays, objects, and the
\* JSONDecodeError raised with its message and 0-based character offset.
Digits == {"0", "1", "2", "3", "4", "5", "6", "7", "8", "9"}
DigitValue(c) ==
    CASE c = "0" -> 0 [] c = "1" -> 1 [] c = "2" -> 2 [] c = "3" -> 3 [] c = "4" -> 4
      [] c = "5" -> 5 [] c = "6" -> 6 [] c = "7" -> 7 [] c = "8" -> 8 [] c = "9" -> 9

Parsed(value, end) == [ok |-> TRUE, val |-> value, end |-> end, msg |-> ""]
\* JSONDecodeError(msg, doc, pos): at is the 1-based index, pos = at - 1
DecodeError(msg, at) == [ok |-> FALSE, val |-> PyNone, end |-> at, msg |-> msg]

\* the index of the first character at or after i that is not whitespace
RECURSIVE SkipWs(_, _)
SkipWs(s, i) == IF i <= Len(s) /\ s[i] = " " THEN SkipWs(s, i + 1) ELSE i

\* the index just past the digits that start at i
RECURSIVE DigitsEnd(_, _)
DigitsEnd(s, i) == IF i <= Len(s) /\ s[i] \in Digits THEN DigitsEnd(s, i + 1) ELSE i

RECURSIVE DecimalValue(_, _, _)
DecimalValue(s, i, j) ==
    IF j < i THEN 0 ELSE 10 * DecimalValue(s, i, j - 1) + DigitValue(s[j])

\* NUMBER_RE restricted to integers without sign: 0 | [1-9][0-9]*
ScanNumber(s, i) ==
    IF s[i] = "0" THEN Parsed(PyInt(0), i + 1)
    ELSE Parsed(PyInt(DecimalValue(s, i, DigitsEnd(s, i) - 1)), DigitsEnd(s, i))

\* scanstring: i is the index after the opening quote
RECURSIVE QuoteAt(_, _)
QuoteAt(s, i) == IF i > Len(s) THEN 0 ELSE IF s[i] = "\"" THEN i ELSE QuoteAt(s, i + 1)

ScanString(s, i) ==
    IF QuoteAt(s, i) = 0 THEN DecodeError("Unterminated string starting at", i - 1)
    ELSE Parsed(PyStr(SubSeq(s, i, QuoteAt(s, i) - 1)), QuoteAt(s, i) + 1)

RECURSIVE ScanOnce(_, _), ArrayItems(_, _, _), ObjectPairs(_, _, _)

\* JSONArray: i is the index after "["
ParseArray(s, i) ==
    LET j == SkipWs(s, i)
    IN  IF j <= Len(s) /\ s[j] = "]" THEN Parsed(PyList(<<>>), j + 1)
        ELSE ArrayItems(s, j, <<>>)

\* JSONObject: i is the index after "{"
ParseObject(s, i) ==
    LET j == SkipWs(s, i)
    IN  IF j <= Len(s) /\ s[j] = "}" THEN Parsed(PyDict(<<>>), j + 1)
        ELSE IF j > Len(s) \/ s[j] # "\""
             THEN DecodeError("Expecting property name enclosed in double quotes", j)
             ELSE ObjectPairs(s, j + 1, <<>>)

\* the while loop of JSONArray: one value, then "]" or ","
ArrayItems(s, i, acc) ==
    LET r == ScanOnce(s, i)
        j == SkipWs(s, r.end)
    IN  IF ~r.ok THEN r
        ELSE IF j <= Len(s) /\ s[j] = "]" THEN Parsed(PyList(Append(acc, r.val)), j + 1)
        ELSE IF j > Len(s) \/ s[j] # "," THEN DecodeError("Expecting ',' delimiter", j)
        ELSE ArrayItems(s, SkipWs(s, j + 1), Append(acc, r.val))

\* the while loop of JSONObject: i is the index after the key's opening quote
ObjectPairs(s, i, acc) ==
    LET k  == ScanString(s, i)
        c  == SkipWs(s, k.end)
        r  == ScanOnce(s, SkipWs(s, c + 1))
        j  == SkipWs(s, r.end)
        j2 == SkipWs(s, j + 1)
        d  == DictSet(acc, k.val.v, r.val)
    IN  IF ~k.ok THEN k
        ELSE IF c > Len(s) \/ s[c] # ":" THEN DecodeError("Expecting ':' delimiter", c)
        ELSE IF ~r.ok THEN r
        ELSE IF j <= Len(s) /\ s[j] = "}" THEN Parsed(PyDict(d), j + 1)
        ELSE IF j > Len(s) \/ s[j] # "," THEN DecodeError("Expecting ',' delimiter", j)
        ELSE IF j2 > Len(s) \/ s[j2] # "\""
             THEN DecodeError("Expecting property name enclosed in double quotes", j2)
        ELSE ObjectPairs(s, j2 + 1, d)

\* scan_once: the value that starts at index i
ScanOnce(s, i) ==
    IF i > Len(s) THEN DecodeError("Expecting value", i)
    ELSE IF s[i] = "\"" THEN ScanString(s, i + 1)
    ELSE IF s[i] = "{" THEN ParseObject(s, i + 1)
    ELSE IF s[i] = "[" THEN ParseArray(s, i + 1)
    ELSE IF s[i] = "n" /\ i + 3 <= Len(s) /\ SubSeq(s, i, i + 3) = <<"n", "u", "l", "l">>
         THEN Parsed(PyNone, i + 4)
    ELSE IF s[i] \in Digits THEN ScanNumber(s, i)
    ELSE DecodeError("Expecting value", i)

\* JSONDecoder.decode: one value, then only whitespace
json_loads(s) ==
    LET r == ScanOnce(s, SkipWs(s, 1))
        e == SkipWs(s, r.end)
    IN  IF ~r.ok THEN r
        ELSE IF e # Len(s) + 1 THEN DecodeError("Extra data", e)
        ELSE r

\* str(e) of a JSONDecodeError: the message and the character offset
DecodeDiagnostic(r) == [msg |-> r.msg, pos |-> r.end - 1]

\* ------------------------------------------------------------ pd.DataFrame
\* the keys of a list of dicts, each once, in first-seen order
RECURSIVE UnionKeys(_, _, _)
UnionKeys(items, i, acc) ==
    IF i > Len(items) THEN acc
    ELSE LET keys == DictKeys(items[i].v)
             new  == SelectSeq(keys, LAMBDA k : \A j \in 1..Len(acc) : acc[j] # k)
         IN  UnionKeys(items, i + 1, acc \o new)

MaxOf(S) == IF S = {} THEN 0 ELSE CHOOSE m \in S : \A n \in S : n <= m

Built(frame) == [raised |-> FALSE, val |-> frame]
ConstructorRaises == [raised |-> TRUE, val |-> PyNone]

\* pd.DataFrame(items) for a Python list: an empty list gives the empty frame, a list
\* of dicts one column per key (nan where a record lacks it), a list of lists one
\* column per position, a list of scalars the single column 0; a list that starts
\* with a dict (a list) and holds anything else raises.
pd_DataFrame(items) ==
    IF Len(items) = 0 THEN Built(PyFrame(<<>>, <<>>))
    ELSE IF IsDict(items[1])
    THEN IF \E i \in 1..Len(items) : ~IsDict(items[i]) THEN ConstructorRaises
         ELSE LET keys == UnionKeys(items, 1, <<>>)
              IN  Built(PyFrame([k \in 1..Len(keys) |-> PyStr(keys[k])],
                        [i \in 1..Len(items) |->
                            [k \in 1..Len(keys) |->
                                IF DictHas(items[i].v, keys[k])
                                THEN DictValue(items[i].v, keys[k]) ELSE PyNaN]]))
    ELSE IF IsList(items[1])
    THEN IF \E i \in 1..Len(items) : ~IsList(items[i]) THEN ConstructorRaises
         ELSE LET width == MaxOf({Len(items[i].v) : i \in 1..Len(items)})
              IN  Built(PyFrame([k \in 1..width |-> PyInt(k - 1)],
                        [i \in 1..Len(items) |->
                            [k \in 1..width |->
                                IF k <= Len(items[i].v) THEN items[i].v[k] ELSE PyNone]]))
    ELSE Built(PyFrame(<<PyInt(0)>>, [i \in 1..Len(items) |-> <<items[i]>>]))

\* DataFrame.empty: some axis has length 0
FrameEmpty(frame) == Len(frame.v.columns) = 0 \/ Len(frame.v.rows) = 0

\* ------------------------------------------------------------ the chart tools
\* the decorated tools: the required_fields given to validate_and_parse_data, the
\* parameters without a default, and the prefix handed to generate_unique_filename
WrappedTools ==
    { [name |-> "generate_area_chart", chart |-> "area",
       required |-> <<"data", "x_field", "y_field">>, needed |-> {"data", "x_field", "y_field"}],
      [name |-> "generate_bar_chart", chart |-> "bar",
       required |-> <<"data", "x_field", "y_field">>, needed |-> {"data", "x_field", "y_field"}],
      [name |-> "generate_column_chart", chart |-> "column",
       required |-> <<"data", "x_field", "y_field">>, needed |-> {"data", "x_field", "y_field"}],
      [name |-> "generate_dual_axes_chart", chart |-> "dual_axes",
       required |-> <<"data", "x_field", "y1_field", "y2_field">>,
       needed |-> {"data", "x_field", "y1_field", "y2_field"}],
      [name |-> "generate_histogram_chart", chart |-> "histogram",
       required |-> <<>>, needed |-> {"data"}],
      [name |-> "generate_line_chart", chart |-> "line",
       required |-> <<"data", "x_field", "y_field">>, needed |-> {"data", "x_field", "y_field"}],
      [name |-> "generate_pie_chart", chart |-> "pie",
       required |-> <<"data", "label_field", "value_field">>,
       needed |-> {"data", "label_field", "value_field"}],
      [name |-> "generate_radar_chart", chart |-> "radar",
       required |-> <<"data", "category_field", "value_fields">>,
       needed |-> {"data", "category_field", "value_fields"}],
      [name |-> "generate_scatter_chart", chart |-> "scatter",
       required |-> <<"data", "x_field", "y_field">>, needed |-> {"data", "x_field", "y_field"}],
      [name |-> "generate_treemap_chart", chart |-> "treemap",
       required |-> <<"data", "path_field", "value_field">>,
       needed |-> {"data", "path_field", "value_field"}] }

\* the decorator applied with required_fields=["data", "a", "b"] to a function of
\* the parameters data, a, b that records its call and reports success
RecordingTool ==
    [name |-> "recording_handler", chart |-> "chart",
     required |-> <<"data", "a", "b">>, needed |-> {"data", "a", "b"}]

Tools == WrappedTools \cup {RecordingTool}

\* --------------------------------------------------------------- image files
\* the characters of the prefixes the tools hand to generate_unique_filename
\* ("chart" is the default of its chart_type parameter)
Chars ==
    [ area |-> <<"a", "r", "e", "a">>,
      bar |-> <<"b", "a", "r">>,
      column |-> <<"c", "o", "l", "u", "m", "n">>,
      dual_axes |-> <<"d", "u", "a", "l", "_", "a", "x", "e", "s">>,
      fishbone |-> <<"f", "i", "s", "h", "b", "o", "n", "e">>,
      flow |-> <<"f", "l", "o", "w">>,
      histogram |-> <<"h", "i", "s", "t", "o", "g", "r", "a", "m">>,
      line |-> <<"l", "i", "n", "e">>,
      mindmap |-> <<"m", "i", "n", "d", "m", "a", "p">>,
      network |-> <<"n", "e", "t", "w", "o", "r", "k">>,
      pie |-> <<"p", "i", "e">>,
      radar |-> <<"r", "a", "d", "a", "r">>,
      scatter |-> <<"s", "c", "a", "t", "t", "e", "r">>,
      treemap |-> <<"t", "r", "e", "e", "m", "a", "p">>,
      wordcloud |-> <<"w", "o", "r", "d", "c", "l", "o", "u", "d">>,
      chart |-> <<"c", "h", "a", "r", "t">> ]

IMAGES_DIR == <<"/", "i", "m", "a", "g", "e", "s">>

\* a decimal number in `width` digits, zero-padded on the left
DigitChar(d) == <<"0", "1", "2", "3", "4", "5", "6", "7", "8", "9">>[d + 1]
RECURSIVE ZeroPadded(_, _)
ZeroPadded(n, width) ==
    IF width = 0 THEN <<>> ELSE Append(ZeroPadded(n \div 10, width - 1), DigitChar(n % 10))

\* now.strftime("%Y%m%d"), line 279
strftime_Ymd(now) ==
    ZeroPadded(now.year, 4) \o ZeroPadded(now.month, 2) \o ZeroPadded(now.day, 2)

\* str(uuid.UUID): the 32 hex digits in groups of 8-4-4-4-12
uuid_str(hex) ==
    SubSeq(hex, 1, 8) \o <<"-">> \o SubSeq(hex, 9, 12) \o <<"-">> \o SubSeq(hex, 13, 16)
        \o <<"-">> \o SubSeq(hex, 17, 20) \o <<"-">> \o SubSeq(hex, 21, 32)

\* s.replace(c, '')
Without(s, c) == SelectSeq(s, LAMBDA x : x # c)

UniqueId_wholeUuid(uuid4) == Without(uuid_str(uuid4), "-")

\* str(uuid.uuid4()).replace('-', '')[:9], line 280
UniqueId(uuid4) == SlicePrefix(Without(uuid_str(uuid4), "-"), 9)

\* lines 277-281, for the clock reading `now` and the uuid4 drawn
generate_unique_filename(chart_type, extension, now, uuid4) ==
    chart_type \o <<"_">> \o strftime_Ymd(now) \o <<"_">> \o UniqueId(uuid4)
        \o <<".">> \o extension

PNG == <<"p", "n", "g">>

\* IMAGES_DIR / filename, lines 286 and 744
PathJoin(dir, filename) == dir \o <<"/">> \o filename

\* os.path.basename: what follows the last slash
RECURSIVE LastSlash(_, _)
LastSlash(path, i) == IF i = 0 \/ path[i] = "/" THEN i ELSE LastSlash(path, i - 1)
Basename(path) == SubSeq(path, LastSlash(path, Len(path)) + 1, Len(path))

IMAGE_BASE_URL == <<"h", "t", "t", "p", ":", "/", "/", "1", "2", "7", ".", "0", ".", "0", ".", "1", ":", "8", "0", "8", "1", "/">>

\* the path of the file save_chart_as_image writes and returns, lines 284-294
save_chart_as_image(filename) == PathJoin(IMAGES_DIR, filename)

\* lines 297-302
generate_image_url(filepath) == IMAGE_BASE_URL \o Basename(filepath)

\* ----------------------------------------------------------- result envelopes
\* error stands for the f-string of the return statement: template names the
\* literal text, arg the value interpolated into it:
\*   data_parse_failed    line 328   words_parse_failed   line 343
\*   param_required       line 352   param_is_none        line 359
\*   param_data_empty     line 365   processing_exception line 374
Failure(template, arg) == [success |-> FALSE, error |-> [template |-> template, arg |-> arg]]

Success_noUrl(tool, image_url) == [success |-> TRUE, message |-> tool.chart]

\* lines 435-439 and the like: the envelope a handler body returns; message
\* stands for the f-string naming the chart and its title
Success(tool, image_url) ==
    [success |-> TRUE, image_url |-> image_url, message |-> tool.chart]

\* ------------------------------------------- validate_and_parse_data.wrapper
\* how a stage of the wrapper ends: it goes on with kwargs, it returns an
\* envelope, or it raises into the except clause of line 370
Continue(kwargs) == [tag |-> "continue", kwargs |-> kwargs, ret |-> <<>>]
Return(envelope) == [tag |-> "return", kwargs |-> <<>>, ret |-> envelope]
Raise == [tag |-> "raise", kwargs |-> <<>>, ret |-> <<>>]

ParseDataArgument_ignoresError(kwargs) ==
    IF IsStr(kwargs.data)
    THEN LET r == json_loads(kwargs.data.v)
         IN  IF r.ok THEN Continue([kwargs EXCEPT !.data = r.val]) ELSE Continue(kwargs)
    ELSE Continue(kwargs)

ParseDataArgument_keepsText(kwargs) ==
    IF IsStr(kwargs.data)
    THEN LET r == json_loads(kwargs.data.v)
         IN  IF r.ok THEN Continue(kwargs)
             ELSE Return(Failure("data_parse_failed", DecodeDiagnostic(r)))
    ELSE Continue(kwargs)

\* lines 322-329
ParseDataArgument(kwargs) ==
    IF IsStr(kwargs.data)
    THEN LET r == json_loads(kwargs.data.v)
         IN  IF r.ok THEN Continue([kwargs EXCEPT !.data = r.val])
             ELSE Return(Failure("data_parse_failed", DecodeDiagnostic(r)))
    ELSE Continue(kwargs)

ConvertDataArgument_keepsList(kwargs) == Continue(kwargs)

\* lines 332-333
ConvertDataArgument(kwargs) ==
    IF IsList(kwargs.data)
    THEN LET f == pd_DataFrame(kwargs.data.v)
         IN  IF f.raised THEN Raise ELSE Continue([kwargs EXCEPT !.data = f.val])
    ELSE Continue(kwargs)

\* lines 321-333
ProcessData(kwargs) ==
    IF "data" \in DOMAIN kwargs /\ kwargs.data.t # "None"
    THEN LET p == ParseDataArgument(kwargs)
         IN  IF p.tag = "continue" THEN ConvertDataArgument(p.kwargs) ELSE p
    ELSE Continue(kwargs)

\* lines 336-344
ProcessWords(kwargs) ==
    IF "words" \in DOMAIN kwargs /\ kwargs.words.t # "None" /\ IsStr(kwargs.words)
    THEN LET r == json_loads(kwargs.words.v)
         IN  IF r.ok THEN Continue([kwargs EXCEPT !.words = r.val])
             ELSE Return(Failure("words_parse_failed", DecodeDiagnostic(r)))
    ELSE Continue(kwargs)

\* lines 349-366: the checks of one required field
Passes == [pass |-> TRUE, ret |-> <<>>]
Fails(envelope) == [pass |-> FALSE, ret |-> envelope]

CheckField_noNoneCheck(field, kwargs) ==
    IF field \notin DOMAIN kwargs THEN Fails(Failure("param_required", field))
    ELSE IF IsFrame(kwargs[field]) /\ FrameEmpty(kwargs[field])
         THEN Fails(Failure("param_data_empty", field))
    ELSE Passes

CheckField(field, kwargs) ==
    IF field \notin DOMAIN kwargs THEN Fails(Failure("param_required", field))
    ELSE IF kwargs[field].t = "None" THEN Fails(Failure("param_is_none", field))
    ELSE IF IsFrame(kwargs[field]) /\ FrameEmpty(kwargs[field])
         THEN Fails(Failure("param_data_empty", field))
    ELSE Passes

\* lines 347-366: the for loop returns at the first field that fails
RECURSIVE CheckRequired(_, _, _)
CheckRequired(required_fields, i, kwargs) ==
    IF i > Len(required_fields) THEN Continue(kwargs)
    ELSE LET c == CheckField(required_fields[i], kwargs)
         IN  IF c.pass THEN CheckRequired(required_fields, i + 1, kwargs)
             ELSE Return(c.ret)

\* ------------------------------------------------------------ handler bodies
\* ColorTheme.QUALITATIVE_SETS, lines 102-110: the colour sequences plotly
\* defines, each standing here as a sequence that holds its name
QUALITATIVE_SETS ==
    [ elegant |-> <<"px.colors.qualitative.Set3">>,
      pastel |-> <<"px.colors.qualitative.Pastel">>,
      vivid |-> <<"px.colors.qualitative.Vivid">>,
      bold |-> <<"px.colors.qualitative.Bold">>,
      plotly |-> <<"px.colors.qualitative.Plotly">>,
      safari |-> <<"px.colors.qualitative.Pastel">>,
      alphabet |-> <<"px.colors.qualitative.Alphabet">> ]

\* lines 1172-1178 of generate_pie_chart: the colours handed to px.pie as
\* color_discrete_sequence (line 1185), and the palette name the body notes
PieColors(color_scheme, palette, data_context) ==
    IF color_scheme = NONE /\ palette = NONE
    THEN [colors |-> get_elegant_color("pie", palette, data_context).gradient,
          palette_name |-> get_elegant_color("pie", palette, data_context).palette_name]
    ELSE [colors |-> DictGet(QUALITATIVE_SETS, color_scheme, QUALITATIVE_SETS["elegant"]),
          palette_name |-> IF Falsy(color_scheme) THEN "elegant" ELSE color_scheme]

LabelEq(a, b) == a.t = b.t /\ a.v = b.v
FrameHasColumn(frame, label) ==
    \E k \in 1..Len(frame.v.columns) : LabelEq(frame.v.columns[k], label)

\* the column names a call selects: every needed argument but data, the
\* members of value_fields each on its own
SelectedLabels(tool, kwargs) ==
    UNION { IF IsList(kwargs[n]) THEN {kwargs[n].v[i] : i \in 1..Len(kwargs[n].v)}
            ELSE {kwargs[n]} : n \in tool.needed \ {"data"} }

PlotlyExpressTools == { "generate_area_chart", "generate_bar_chart", "generate_column_chart",
                        "generate_line_chart", "generate_scatter_chart", "generate_pie_chart",
                        "generate_treemap_chart" }

\* whether the body reaches the rendering backend without raising: a frame needs
\* the selected columns (data[x_field], px's column lookup), the radar chart at
\* least one value field (max([]) of line 1275 raises), the histogram a first
\* column (data.iloc[:, 0], line 891); plotly express also takes a dict of
\* columns; anything else (a number, a string, None, a dict of scalars) raises
CanRender(tool, kwargs) ==
    IF tool.name = "recording_handler" THEN TRUE
    ELSE IF IsFrame(kwargs.data)
    THEN /\ \A l \in SelectedLabels(tool, kwargs) : FrameHasColumn(kwargs.data, l)
         /\ tool.name = "generate_radar_chart" => Len(kwargs.value_fields.v) > 0
         /\ tool.name = "generate_histogram_chart" => ~FrameEmpty(kwargs.data)
    ELSE IF IsDict(kwargs.data) /\ tool.name \in PlotlyExpressTools
    THEN \A l \in SelectedLabels(tool, kwargs) :
            /\ IsStr(l)
            /\ DictHas(kwargs.data.v, l.v)
            /\ IsList(DictValue(kwargs.data.v, l.v))
    ELSE FALSE

\* the parameters a decorated tool declares with a default (lines 390-393,
\* 448-451, 504-507, 560-564, 863-867, 917-920, 1149-1152, 1237-1239,
\* 1325-1330, 1394); none of the ten declares a parameter named words
OptionalParameters(tool) ==
    CASE tool.name \in { "generate_area_chart", "generate_bar_chart", "generate_column_chart",
                         "generate_line_chart" } ->
            {"title", "color", "palette", "data_context"}
      [] tool.name = "generate_dual_axes_chart" ->
            {"title", "color1", "color2", "palette", "data_context"}
      [] tool.name = "generate_histogram_chart" ->
            {"bins", "title", "color", "palette", "data_context"}
      [] tool.name = "generate_pie_chart" ->
            {"title", "color_scheme", "palette", "data_context"}
      [] tool.name = "generate_radar_chart" -> {"title", "palette", "data_context"}
      [] tool.name = "generate_scatter_chart" ->
            {"size_field", "color_field", "title", "color", "palette", "data_context"}
      [] tool.name = "generate_treemap_chart" -> {"title"}
      [] OTHER -> {}

\* Python binds keyword arguments to the parameters of func: every parameter
\* without a default gets one, and every keyword names a parameter
Binds(tool, kwargs) ==
    /\ tool.needed \subseteq DOMAIN kwargs
    /\ DOMAIN kwargs \subseteq tool.needed \cup OptionalParameters(tool)

\* func(**kwargs) of line 368: binding the arguments raises TypeError when one
\* without a default is missing or a keyword names no parameter; the body raises when it cannot render or the
\* rendering backend fails (backend = "raise"), and returns success otherwise
\* The body ends with generate_unique_filename, save_chart_as_image and
\* generate_image_url (lines 962-964 and the like): `filename` is the name
\* generate_unique_filename gives this call.
CallHandler(tool, kwargs, backend, filename) ==
    IF ~Binds(tool, kwargs)
    THEN [invoked |-> FALSE, passed |-> <<>>, raised |-> TRUE, ret |-> <<>>, written |-> {}]
    ELSE IF backend = "ok" /\ CanRender(tool, kwargs)
    THEN [invoked |-> TRUE, passed |-> kwargs, raised |-> FALSE,
          ret |-> Success(tool, generate_image_url(save_chart_as_image(filename))),
          written |-> {save_chart_as_image(filename)}]
    ELSE [invoked |-> TRUE, passed |-> kwargs, raised |-> TRUE, ret |-> <<>>, written |-> {}]

\* lines 370-375
ProcessingFailure == Failure("processing_exception", "str(e)")

NotInvoked(envelope) ==
    [ret |-> envelope, invoked |-> FALSE, passed |-> <<>>, written |-> {}]

wrapper_fieldsFirst(d, w, c, h) ==
    IF c.tag = "return" THEN NotInvoked(c.ret)
    ELSE IF d.tag = "return" THEN NotInvoked(d.ret)
    ELSE IF d.tag = "raise" THEN NotInvoked(ProcessingFailure)
    ELSE IF w.tag = "return" THEN NotInvoked(w.ret)
    ELSE [ret |-> IF h.raised THEN ProcessingFailure ELSE h.ret,
          invoked |-> h.invoked, passed |-> h.passed, written |-> h.written]

\* lines 318-376: the envelope returned, whether the handler body ran, and the
\* kwargs it ran with, from the ends of the stages: d of lines 321-333, w of
\* lines 336-344, c of lines 347-366 and h of line 368
wrapper(d, w, c, h) ==
    IF d.tag = "return" THEN NotInvoked(d.ret)
    ELSE IF d.tag = "raise" THEN NotInvoked(ProcessingFailure)
    ELSE IF w.tag = "return" THEN NotInvoked(w.ret)
    ELSE IF c.tag = "return" THEN NotInvoked(c.ret)
    ELSE [ret |-> IF h.raised THEN ProcessingFailure ELSE h.ret,
          invoked |-> h.invoked, passed |-> h.passed, written |-> h.written]

\* ------------------------------------------------- the tools without decorator
\* the five tools registered with @app.tool() alone: the parameters without a
\* default and the prefix handed to generate_unique_filename
DiagramTools ==
    { [name |-> "generate_fishbone_diagram", chart |-> "fishbone",
       needed |-> {"problem", "causes"}],
      [name |-> "generate_flow_diagram", chart |-> "flow", needed |-> {"steps"}],
      [name |-> "generate_mind_map", chart |-> "mindmap", needed |-> {"topic", "branches"}],
      [name |-> "generate_network_graph", chart |-> "network", needed |-> {"nodes", "edges"}],
      [name |-> "generate_word_cloud_chart", chart |-> "wordcloud", needed |-> {"words"}] }

\* what a for loop over x visits: the items of a list, the characters of a
\* str, the keys of a dict; anything else is not iterable
Iterable(x) == IsList(x) \/ IsStr(x) \/ IsDict(x)
ItemsOf(x) ==
    IF IsList(x) THEN x.v
    ELSE IF IsStr(x) THEN [i \in 1..Len(x.v) |-> PyStr(<<x.v[i]>>)]
    ELSE [i \in 1..Len(x.v) |-> PyStr(x.v[i][1])]

\* item[key] for every item of x and every key of keys evaluates: each item is
\* a dict that has the keys (a character of a str has no string index)
EachHas(x, keys) ==
    /\ Iterable(x)
    /\ \A i \in 1..Len(ItemsOf(x)) :
          /\ IsDict(ItemsOf(x)[i])
          /\ \A k \in keys : DictHas(ItemsOf(x)[i].v, k)

\* whether the statements of the try block before the file is named run
\* without raising:
\*   fishbone   causes[:3] and causes[3:6], lines 701 and 721
\*   flow       step.get for every step, lines 797-798
\*   mind map   len(branches) and zip(angles, branches), lines 1014-1017
\*   network    node['id'], edge['source'], edge['target'], lines 1086-1091
\*   word cloud word['word'] and word['freq'], line 1463; WordCloud refuses an
\*              empty frequency dict
CanDraw(tool, kwargs) ==
    CASE tool.name = "generate_fishbone_diagram" ->
            IsList(kwargs.causes) \/ IsStr(kwargs.causes)
      [] tool.name = "generate_flow_diagram" -> EachHas(kwargs.steps, {})
      [] tool.name = "generate_mind_map" -> Iterable(kwargs.branches)
      [] tool.name = "generate_network_graph" ->
            /\ EachHas(kwargs.nodes, {<<"i", "d">>})
            /\ EachHas(kwargs.edges, {<<"s", "o", "u", "r", "c", "e">>, <<"t", "a", "r", "g", "e", "t">>})
      [] tool.name = "generate_word_cloud_chart" ->
            /\ EachHas(kwargs.words, {<<"w", "o", "r", "d">>, <<"f", "r", "e", "q">>})
            /\ Len(ItemsOf(kwargs.words)) > 0

\* the except clause of lines 756-760 and the like: error is str(e)
CaughtFailure == Failure("exception_text", "str(e)")

DiagramBody_leavesFile(tool, kwargs, backend, filename) ==
    IF backend = "ok" /\ CanDraw(tool, kwargs)
    THEN [ret |-> Success(tool, generate_image_url(PathJoin(IMAGES_DIR, filename))),
          escaped |-> NONE, written |-> {PathJoin(IMAGES_DIR, filename)}]
    ELSE [ret |-> CaughtFailure, escaped |-> NONE,
          written |-> {PathJoin(IMAGES_DIR, filename)}]

\* the body of an undecorated tool, one try block from its first statement to
\* its return (lines 659-760, 778-856, 990-1059, 1079-1140, 1458-1538): the
\* figure is drawn, the file named, written by plt.savefig into IMAGES_DIR and
\* the envelope with its URL returned; whatever raises on the way, a failing
\* rendering backend included, ends in the except clause. plt.savefig draws
\* the figure before it opens the file, as write_image renders the image
\* before it opens its file: a backend that raises has opened no file, and
\* nothing after the write (plt.close, generate_image_url, the f-string of the
\* message) depends on the arguments.
DiagramBody(tool, kwargs, backend, filename) ==
    IF backend = "ok" /\ CanDraw(tool, kwargs)
    THEN [ret |-> Success(tool, generate_image_url(PathJoin(IMAGES_DIR, filename))),
          escaped |-> NONE, written |-> {PathJoin(IMAGES_DIR, filename)}]
    ELSE [ret |-> CaughtFailure, escaped |-> NONE, written |-> {}]

\* a call of an undecorated tool with keyword arguments: Python binds them to
\* the parameters before the body's try block is entered, and raises
\* TypeError to the caller when a parameter without a default gets none
DiagramCall(tool, kwargs, backend, filename) ==
    IF ~(tool.needed \subseteq DOMAIN kwargs)
    THEN [ret |-> <<>>, escaped |-> "TypeError", written |-> {}, invoked |-> FALSE,
          passed |-> <<>>]
    ELSE LET b == DiagramBody(tool, kwargs, backend, filename)
         IN  [ret |-> b.ret, escaped |-> b.escaped, written |-> b.written,
              invoked |-> TRUE, passed |-> kwargs]

\* ------------------------------------------------------ the output directory
\* IMAGES_DIR is a function from the paths of its files to what each holds:
\* the call whose open() last created or truncated it, and the calls that have
\* it open for writing (a file nobody is writing is complete).
OpenForWrite_deferred(dir, path, c) == dir

\* open(path, "wb") by write_image (line 287) or plt.savefig (line 745)
OpenForWrite(dir, path, c) ==
    [p \in DOMAIN dir \cup {path} |->
        IF p = path
        THEN [writer |-> c,
              writing |-> IF p \in DOMAIN dir THEN dir[p].writing \cup {c} ELSE {c}]
        ELSE dir[p]]

\* the writer has written its bytes and closed the file
CloseWritten(dir, path, c) ==
    [p \in DOMAIN dir |->
        IF p = path THEN [dir[p] EXCEPT !.writing = @ \ {c}] ELSE dir[p]]

\* ----------------------------------------------------------- the image server
\* str.endswith
EndsWith(str, suffix) ==
    /\ Len(str) >= Len(suffix)
    /\ SubSeq(str, Len(str) - Len(suffix) + 1, Len(str)) = suffix

DOT_PNG == <<".", "p", "n", "g">>

\* a response: the status, the headers with a fixed value (Server, Date,
\* Content-Length and Last-Modified are left out) and what the body is
NoBody == [kind |-> "none", of |-> <<>>]
Custom404Body == [kind |-> "custom_404_html", of |-> <<>>]
ErrorPageBody == [kind |-> "error_page_html", of |-> <<>>]
ListingBody == [kind |-> "directory_listing", of |-> <<>>]
FileBody(path, file) == [kind |-> "file", of |-> [path |-> path, holds |-> file]]

CorsHeaders ==
    { <<"Access-Control-Allow-Origin", "*">>,
      <<"Access-Control-Allow-Methods", "GET, OPTIONS">>,
      <<"Access-Control-Allow-Headers", "Content-Type">> }

end_headers_bare(headers) == headers

\* lines 1559-1563: the override every response's header block ends with
end_headers(headers) == headers \cup CorsHeaders

\* BaseHTTPRequestHandler.send_error: an HTML error page, not sent for HEAD
send_error(code, command) ==
    [status |-> code,
     headers |-> end_headers({ <<"Connection", "close">>,
                               <<"Content-Type", "text/html;charset=utf-8">> }),
     body |-> IF command = "HEAD" THEN NoBody ELSE ErrorPageBody]

\* SimpleHTTPRequestHandler.translate_path: the query and the fragment are cut
\* off and the rest is taken below the served directory
RECURSIVE QueryStart(_, _)
QueryStart(path, i) ==
    IF i > Len(path) \/ path[i] \in {"?", "#"} THEN i ELSE QueryStart(path, i + 1)
translate_path(path) == IMAGES_DIR \o SubSeq(path, 1, QueryStart(path, 1) - 1)

\* mimetypes guess by extension
guess_type(fs_path) ==
    IF EndsWith(fs_path, DOT_PNG) THEN "image/png"
    ELSE IF EndsWith(fs_path, <<".", "t", "x", "t">>) THEN "text/plain"
    ELSE "application/octet-stream"

\* SimpleHTTPRequestHandler.send_head: the listing of the directory, the file,
\* or 404 File not found when open() fails
send_head(command, path, dir) ==
    LET fs_path == translate_path(path)
    IN  IF fs_path = IMAGES_DIR \o <<"/">>
        THEN [status |-> 200,
              headers |-> end_headers({<<"Content-type", "text/html; charset=utf-8">>}),
              body |-> ListingBody]
        ELSE IF fs_path \notin DOMAIN dir THEN send_error(404, command)
        ELSE [status |-> 200,
              headers |-> end_headers({<<"Content-type", guess_type(fs_path)>>}),
              body |-> FileBody(fs_path, dir[fs_path])]

\* SimpleHTTPRequestHandler.do_GET, reached through super().do_GET() of line 1578
base_do_GET(path, dir) == send_head("GET", path, dir)

\* SimpleHTTPRequestHandler.do_HEAD, which ImageHTTPRequestHandler inherits
\* (line 1555) and does not override: the headers of send_head, no body
do_HEAD(path, dir) == [send_head("HEAD", path, dir) EXCEPT !.body = NoBody]

\* lines 1568-1578
do_GET(path, dir) ==
    IF ~EndsWith(path, DOT_PNG)
    THEN [status |-> 404,
          headers |-> end_headers({<<"Content-type", "text/html; charset=utf-8">>}),
          body |-> Custom404Body]
    ELSE base_do_GET(path, dir)

\* BaseHTTPRequestHandler.handle_one_request: the do_<command> method of the
\* handler class, 501 when it has none
handle_one_request(command, path, dir) ==
    CASE command = "GET" -> do_GET(path, dir)
      [] command = "HEAD" -> do_HEAD(path, dir)
      [] OTHER -> send_error(501, command)

\* the request path of a URL the tools hand out: the URL from the slash that
\* ends the base on
UrlPath(url) == SubSeq(url, Len(IMAGE_BASE_URL), Len(url))

\* -------------------------------------------------------------- input sets
ChartTypes == { "line", "column", "bar", "area", "pie", "scatter", "radar", "histogram",
                "treemap", "dual_axes", "temperature", "sales", "progress", "comparison",
                "funnel", NONE }
PaletteNames == { "ocean", "sunset", "forest", "violet", "coral", "rainbow", "", NONE }
DataContexts == { "temperature", "sales", "progress", "comparison", "dual_axes",
                  "weather", NONE }
\* what a caller may give for color_scheme
ColorSchemes == { "elegant", "pastel", "safari", "ocean", "", NONE }

\* the chart tools followed step by step: one that saves through
\* save_chart_as_image and one that saves through plt.savefig
ServedTools ==
    { t \in WrappedTools \cup DiagramTools :
        t.name \in {"generate_line_chart", "generate_network_graph"} }

Calls == 1..MaxCalls

\* a call nobody has made yet
NotStarted == [pc |-> "idle", tool |-> NONE, filename |-> <<>>, ret |-> <<>>]

\* the methods and paths a client may send besides the paths of files
Methods == {"GET", "HEAD", "OPTIONS"}
FixedPaths ==
    { <<"/">>, <<"/", "n", "o", "t", "e", "s", ".", "t", "x", "t">>,
      <<"/", "m", "i", "s", "s", "i", "n", "g", ".", "p", "n", "g">>, <<"/", "?", "v", "=", ".", "p", "n", "g">> }

\* what datetime.now() reads when a file is named
Dates == { [year |-> 2025, month |-> 9, day |-> 5], [year |-> 2026, month |-> 12, day |-> 31] }

\* what uuid.uuid4() draws, as 32 hex digits: the first two differ in the
\* tenth digit only
UuidA == <<"3", "f", "2", "a", "9", "c", "0", "1", "7", "b", "4", "e", "4", "d", "1", "a", "9", "c", "3", "e", "5", "f", "6", "a", "7", "b", "8", "c", "9", "d", "0", "e">>
UuidB == <<"3", "f", "2", "a", "9", "c", "0", "1", "7", "c", "4", "e", "4", "d", "1", "a", "9", "c", "3", "e", "5", "f", "6", "a", "7", "b", "8", "c", "9", "d", "0", "e">>
UuidC == <<"a", "8", "1", "d", "4", "f", "a", "e", "7", "d", "e", "c", "4", "1", "d", "0", "a", "7", "6", "5", "0", "0", "a", "0", "c", "9", "1", "e", "6", "b", "f", "6">>
UUIDs == {UuidA, UuidB, UuidC}

\* an argument the caller leaves out
ABSENT == [t |-> "<absent>", v |-> <<>>]

\* [{"a":1,"b":2}]
TextOneRecord ==
    <<"[", "{", "\"", "a", "\"", ":", "1", ",", "\"", "b", "\"", ":", "2", "}", "]">>
\* [{"a":1},{"b":2}]
TextTwoRecords ==
    <<"[", "{", "\"", "a", "\"", ":", "1", "}", ",", "{", "\"", "b", "\"", ":", "2", "}", "]">>
\* [{"a":1},5]
TextMixedList == <<"[", "{", "\"", "a", "\"", ":", "1", "}", ",", "5", "]">>
\* {"a":[1],"b":[2]}
TextColumns ==
    <<"{", "\"", "a", "\"", ":", "[", "1", "]", ",", "\"", "b", "\"", ":", "[", "2", "]", "}">>
\* [{"a":1,"b":2}  (the closing bracket is missing)
TextTruncated ==
    <<"[", "{", "\"", "a", "\"", ":", "1", ",", "\"", "b", "\"", ":", "2", "}">>

ChosenTexts ==
    { TextOneRecord, TextTwoRecords, TextMixedList, TextColumns, TextTruncated,
      <<"[", " ", "]">>,                                 \* [ ]
      <<"[", "{", "}", "]">>,                            \* [{}]
      <<"[", "1", ",", "2", "]">>,                       \* [1,2]
      <<"[", "1", ",", "]">>,                            \* [1,]
      <<"{", "\"", "a", "\"", ":", "1", "}">>,           \* {"a":1}
      <<"{", "a", ":", "1", "}">>,                       \* {a:1}
      <<"n", "u", "l", "l">>,                            \* null
      <<"\"", "a", "\"">>,                               \* "a"
      <<"a", ",", "b">> }                                \* a,b

TextAlphabet == {"[", "]", "{", "}", "1", "\""}
ShortTexts == UNION { [1..n -> TextAlphabet] : n \in 0..MaxTextLen }

RecordA1B2 == PyDict(<< <<(<<"a">>), PyInt(1)>>, <<(<<"b">>), PyInt(2)>> >>)

\* data as the caller gives it: a JSON text, a list, or something else
DataOptions ==
    { PyStr(text) : text \in ChosenTexts \cup ShortTexts }
    \cup { PyList(<<>>), PyList(<<RecordA1B2>>), PyList(<<PyDict(<<>>)>>),
           PyList(<<PyInt(1), PyInt(2)>>), PyList(<<RecordA1B2, PyInt(5)>>),
           PyDict(<< <<(<<"a">>), PyInt(1)>> >>), PyInt(5), PyNone, ABSENT }

OptionsFor(name) ==
    IF name = "data" THEN DataOptions
    ELSE IF name = "value_fields"
    THEN { PyList(<<PyStr(<<"b">>)>>), PyList(<<>>), PyNone, ABSENT }
    ELSE { PyStr(<<"a">>), PyStr(<<"z">>), PyNone, ABSENT }

\* the keyword arguments of a call: the arguments given, by name
KwargsOf(full) == [n \in {m \in DOMAIN full : full[m].t # "<absent>"} |-> full[n]]

\* what the caller may give for the arguments other than data
SelectorOptions(tool) ==
    LET others == tool.needed \ {"data"}
    IN  { f \in [others -> UNION {OptionsFor(n) : n \in others}] :
            \A n \in others : f[n] \in OptionsFor(n) }

CallKwargs(tool) ==
    { KwargsOf([n \in tool.needed |-> IF n = "data" THEN d ELSE f[n]]) :
        d \in DataOptions, f \in SelectorOptions(tool) }

\* [{"word":"a","freq":1}]
TextWords ==
    <<"[", "{", "\"", "w", "o", "r", "d", "\"", ":", "\"", "a", "\"", ",", "\"", "f", "r", "e", "q", "\"", ":", "1", "}", "]">>
\* [{"word":"a"   (cut short)
TextWordsTruncated == <<"[", "{", "\"", "w", "o", "r", "d", "\"", ":", "\"", "a", "\"">>

WordA1 == PyDict(<< <<<<"w", "o", "r", "d">>, PyStr(<<"a">>)>>, <<<<"f", "r", "e", "q">>, PyInt(1)>> >>)
NodeN == PyDict(<< <<(<<"i", "d">>), PyStr(<<"n">>)>> >>)
EdgeNN == PyDict(<< <<<<"s", "o", "u", "r", "c", "e">>, PyStr(<<"n">>)>>, <<<<"t", "a", "r", "g", "e", "t">>, PyStr(<<"n">>)>> >>)
StepS == PyDict(<< <<<<"t", "e", "x", "t">>, PyStr(<<"s">>)>> >>)

\* what a caller of a decorated tool may give under the keyword words
WordsOptions == { PyStr(TextWords), PyStr(TextWordsTruncated), PyList(<<WordA1>>), PyNone }

\* the calls to which a words keyword is added: those whose data is not one
\* of the short texts
WordsCallKwargs(tool) ==
    { k \in CallKwargs(tool) :
        ("data" \in DOMAIN k /\ IsStr(k.data)) => k.data.v \in ChosenTexts }

\* kwargs with the keyword words added
WithWords(kwargs, words) ==
    [n \in DOMAIN kwargs \cup {"words"} |-> IF n = "words" THEN words ELSE kwargs[n]]

\* what the caller may give for a parameter of an undecorated tool
DiagramOptionsFor(name) ==
    CASE name \in {"problem", "topic"} -> { PyStr(<<"p">>), ABSENT }
      [] name \in {"causes", "branches"} ->
            { PyList(<<PyStr(<<"c">>)>>), PyList(<<>>), PyNone, ABSENT }
      [] name = "steps" ->
            { PyList(<<StepS>>), PyList(<<PyStr(<<"s">>)>>), PyStr(<<"[", "]">>), PyNone,
              ABSENT }
      [] name = "nodes" ->
            { PyList(<<NodeN>>), PyList(<<PyDict(<<>>)>>), PyStr(<<"[", "]">>), ABSENT }
      [] name = "edges" -> { PyList(<<EdgeNN>>), PyList(<<>>), PyList(<<NodeN>>), ABSENT }
      [] name = "words" ->
            { PyList(<<WordA1>>), PyList(<<>>), PyList(<<NodeN>>), PyStr(TextWords),
              PyStr(TextWordsTruncated), PyStr(<<>>), PyNone, ABSENT }

DiagramKwargs(tool) ==
    { KwargsOf(f) : f \in { g \in [tool.needed -> UNION {DiagramOptionsFor(n) : n \in tool.needed}] :
                              \A n \in tool.needed : g[n] \in DiagramOptionsFor(n) } }

\* pyplot when the process starts, and an invocation nobody has made yet
NoFigures == [figs |-> <<>>, canvas |-> <<>>]
NotDrawing == [pc |-> 0, tool |-> NONE, ax |-> <<>>, saved |-> FALSE, image |-> {}]

\* ------------------------------------------------------------------ actions
Init ==
    /\ op = "idle"
    /\ args = <<>>
    /\ ret = <<>>
    /\ invoked = FALSE
    /\ passed = <<>>
    /\ escaped = NONE
    /\ written = {}
    /\ registry = ELEGANT_PALETTES
    /\ today \in Dates
    /\ files = <<>>
    /\ calls = [c \in Calls |-> NotStarted]
    /\ exchange = <<>>
    /\ pyplot = NoFigures
    /\ diagrams = [c \in Calls |-> NotDrawing]

CallGetElegantColor ==
    /\ op = "idle"
    /\ \E ct \in ChartTypes, pn \in PaletteNames, dc \in DataContexts :
        /\ op' = "get_elegant_color"
        /\ args' = [chart_type |-> ct, palette_name |-> pn, data_context |-> dc]
        /\ ret' = get_elegant_color(ct, pn, dc)
        /\ UNCHANGED <<invoked, passed, escaped, written, registry, today, serverVars, plotVars>>

CallGetPaletteColors ==
    /\ op = "idle"
    /\ \E pn \in PaletteNames, n \in 0..MaxCount :
        /\ op' = "get_palette_colors"
        /\ args' = [palette_name |-> pn, count |-> n]
        /\ ret' = get_palette_colors(pn, n)
        /\ registry' = ThemeAfterPaletteColors(registry, pn, n)
        /\ UNCHANGED <<invoked, passed, escaped, written, today, serverVars, plotVars>>

\* generate_pie_chart chooses its colours from the styling arguments of the
\* call (lines 1172-1178): ret shows what it hands to px.pie
CallPieChartColors ==
    /\ op = "idle"
    /\ \E cs \in ColorSchemes, pn \in PaletteNames, dc \in DataContexts :
        /\ op' = "pie_colors"
        /\ args' = [color_scheme |-> cs, palette |-> pn, data_context |-> dc]
        /\ ret' = PieColors(cs, pn, dc)
        /\ UNCHANGED <<invoked, passed, escaped, written, registry, today, serverVars, plotVars>>

\* a tool call through the decorator, to its return: each stage works on the
\* kwargs the stage before it left
CallTool ==
    /\ op = "idle"
    /\ \E tool \in Tools, backend \in {"ok", "raise"}, uuid4 \in UUIDs :
        \E kwargs \in CallKwargs(tool) :
        \E d \in {ProcessData(kwargs)} :
        \E w \in {ProcessWords(d.kwargs)} :
        \E c \in {CheckRequired(tool.required, 1, w.kwargs)} :
        \E filename \in {generate_unique_filename(Chars[tool.chart], PNG, today, uuid4)} :
        \E h \in {CallHandler(tool, c.kwargs, backend, filename)} :
            /\ op' = "tool"
            /\ args' = [tool |-> tool, kwargs |-> kwargs]
            /\ ret' = wrapper(d, w, c, h).ret
            /\ invoked' = wrapper(d, w, c, h).invoked
            /\ passed' = wrapper(d, w, c, h).passed
            /\ written' = wrapper(d, w, c, h).written
            /\ UNCHANGED <<escaped, registry, today, serverVars, plotVars>>

\* a call of a decorated tool that also passes the keyword words: the wrapper
\* takes any keyword (line 318) and treats words in lines 336-344, while the
\* function it wraps declares no such parameter
CallToolWithWords ==
    /\ op = "idle"
    /\ \E tool \in WrappedTools, backend \in {"ok", "raise"}, uuid4 \in UUIDs :
        \E kwargs \in { WithWords(k, x) : k \in WordsCallKwargs(tool), x \in WordsOptions } :
        \E d \in {ProcessData(kwargs)} :
        \E w \in {ProcessWords(d.kwargs)} :
        \E c \in {CheckRequired(tool.required, 1, w.kwargs)} :
        \E filename \in {generate_unique_filename(Chars[tool.chart], PNG, today, uuid4)} :
        \E h \in {CallHandler(tool, c.kwargs, backend, filename)} :
            /\ op' = "tool_words"
            /\ args' = [tool |-> tool, kwargs |-> kwargs]
            /\ ret' = wrapper(d, w, c, h).ret
            /\ invoked' = wrapper(d, w, c, h).invoked
            /\ passed' = wrapper(d, w, c, h).passed
            /\ written' = wrapper(d, w, c, h).written
            /\ UNCHANGED <<escaped, registry, today, serverVars, plotVars>>

\* a call of an undecorated tool, to its return or to the exception it lets out
CallDiagramTool ==
    /\ op = "idle"
    /\ \E tool \in DiagramTools, backend \in {"ok", "raise"}, uuid4 \in UUIDs :
        \E kwargs \in DiagramKwargs(tool) :
        \E filename \in {generate_unique_filename(Chars[tool.chart], PNG, today, uuid4)} :
        \E r \in {DiagramCall(tool, kwargs, backend, filename)} :
            /\ op' = "diagram"
            /\ args' = [tool |-> tool, kwargs |-> kwargs]
            /\ ret' = r.ret
            /\ invoked' = r.invoked
            /\ passed' = r.passed
            /\ escaped' = r.escaped
            /\ written' = r.written
            /\ UNCHANGED <<registry, today, serverVars, plotVars>>

\* the caller has its answer; the next call starts from a clean slate
Respond ==
    /\ op # "idle"
    /\ op' = "idle"
    /\ args' = <<>>
    /\ ret' = <<>>
    /\ invoked' = FALSE
    /\ passed' = <<>>
    /\ escaped' = NONE
    /\ written' = {}
    /\ UNCHANGED <<registry, today, serverVars, plotVars>>

Next ==
    \/ CallGetElegantColor
    \/ CallGetPaletteColors
    \/ CallPieChartColors
    \/ CallTool
    \/ CallToolWithWords
    \/ CallDiagramTool
    \/ Respond

Spec == Init /\ [][Next]_vars

\* ------------------------------------------- calls and image server, by steps
\* Here a tool invocation is followed from the point where its arguments have
\* been accepted: the figure is built, the file named, opened, written and
\* closed, and the envelope with the URL returned. Invocations interleave with
\* each other and with the requests the image server thread answers.
FilePathOf(c) == PathJoin(IMAGES_DIR, calls[c].filename)

\* A request is answered at one instant between the steps of the calls;
\* exchange shows the request and its response at that instant, and is
\* cleared before anything else moves.
NoExchange == DOMAIN exchange = {}

\* the body starts to build its figure
StartCall(c) ==
    /\ NoExchange /\ calls[c].pc = "idle"
    /\ \E tool \in ServedTools :
        calls' = [calls EXCEPT ![c] = [@ EXCEPT !.pc = "drawing", !.tool = tool.name]]
    /\ UNCHANGED <<callVars, plotVars, registry, today, files, exchange>>

ToolNamed(name) == CHOOSE t \in ServedTools : t.name = name

\* something raises before the file is named: the except clause answers
\* (line 370 for a decorated tool, line 1136 for the network graph)
FailCall(c) ==
    /\ NoExchange /\ calls[c].pc = "drawing"
    /\ calls' = [calls EXCEPT ![c] =
                    [@ EXCEPT !.pc = "returned",
                              !.ret = IF ToolNamed(calls[c].tool) \in WrappedTools
                                      THEN ProcessingFailure ELSE CaughtFailure]]
    /\ UNCHANGED <<callVars, plotVars, registry, today, files, exchange>>

\* filename = generate_unique_filename(...), lines 962 and 1123
NameFile(c) ==
    /\ NoExchange /\ calls[c].pc = "drawing"
    /\ \E uuid4 \in UUIDs :
        \E filename \in {generate_unique_filename(Chars[ToolNamed(calls[c].tool).chart],
                                                   PNG, today, uuid4)} :
            calls' = [calls EXCEPT ![c] = [@ EXCEPT !.pc = "named", !.filename = filename]]
    /\ UNCHANGED <<callVars, plotVars, registry, today, files, exchange>>

\* write_image (line 287) or plt.savefig (line 1125) opens the file
OpenFile(c) ==
    /\ NoExchange /\ calls[c].pc = "named"
    /\ files' = OpenForWrite(files, FilePathOf(c), c)
    /\ calls' = [calls EXCEPT ![c].pc = "writing"]
    /\ UNCHANGED <<callVars, plotVars, registry, today, exchange>>

\* ... and returns once the image is written and the file closed
CloseFile(c) ==
    /\ NoExchange /\ calls[c].pc = "writing"
    /\ files' = CloseWritten(files, FilePathOf(c), c)
    /\ calls' = [calls EXCEPT ![c].pc = "saved"]
    /\ UNCHANGED <<callVars, plotVars, registry, today, exchange>>

\* image_url = generate_image_url(filepath) and the return of the envelope,
\* lines 964-970 and 1129-1135
ReturnUrl(c) ==
    /\ NoExchange /\ calls[c].pc = "saved"
    /\ \E url \in {generate_image_url(FilePathOf(c))} :
        calls' = [calls EXCEPT ![c] =
                    [@ EXCEPT !.pc = "returned",
                              !.ret = Success(ToolNamed(calls[c].tool), url)]]
    /\ UNCHANGED <<callVars, plotVars, registry, today, files, exchange>>

\* the URLs clients hold: those of the success envelopes returned so far
ReceivedUrls ==
    { calls[c].ret.image_url :
        c \in {k \in Calls : calls[k].pc = "returned" /\ calls[k].ret.success} }

\* the paths a client may ask for: the fixed ones, the path of every URL
\* received, the same with a query string, and the name of any file in the
\* directory, guessed
RequestPaths ==
    FixedPaths
    \cup { UrlPath(url) : url \in ReceivedUrls }
    \cup { UrlPath(url) \o <<"?", "v", "=", "1">> : url \in ReceivedUrls }
    \cup { <<"/">> \o Basename(p) : p \in DOMAIN files }

\* the server thread (lines 1580-1587) answers one request
ServeRequest ==
    /\ NoExchange
    /\ \E command \in Methods, path \in RequestPaths :
        \E response \in {handle_one_request(command, path, files)} :
            exchange' = [command |-> command, path |-> path,
                         received |-> \E url \in ReceivedUrls : UrlPath(url) = path,
                         response |-> response]
    /\ UNCHANGED <<callVars, plotVars, registry, today, files, calls>>

\* the response has gone out
CloseExchange ==
    /\ ~NoExchange
    /\ exchange' = <<>>
    /\ UNCHANGED <<callVars, plotVars, registry, today, files, calls>>

ServerNext ==
    \/ \E c \in Calls :
        \/ StartCall(c)
        \/ FailCall(c)
        \/ NameFile(c)
        \/ OpenFile(c)
        \/ CloseFile(c)
        \/ ReturnUrl(c)
    \/ ServeRequest
    \/ CloseExchange

ServerSpec == Init /\ [][ServerNext]_vars

\* --------------------------------------------- the matplotlib tools, by steps
\* pyplot keeps the open figures of the process in the order they were made
\* current (figs, the current figure last) and every figure is an object its
\* holders can still draw on after it is closed (canvas: what each figure
\* shows, as marks <<call, part>> naming the call whose arguments the part
\* was drawn from).  A figure is named by the call that created it and its
\* rank among the figures of that call.
NextFigure(c) == <<c, Cardinality({f \in DOMAIN pyplot.canvas : f[1] = c}) + 1>>

\* plt.figure() and plt.subplots(): a new empty figure becomes the current one
new_figure(p, fig) ==
    [figs |-> Append(p.figs, fig),
     canvas |-> [f \in DOMAIN p.canvas \cup {fig} |->
                    IF f = fig THEN {} ELSE p.canvas[f]]]

\* plt.gcf(): the current figure, created when there is none
gcf(p, fig) == IF Len(p.figs) = 0 THEN new_figure(p, fig) ELSE p
Current(p) == p.figs[Len(p.figs)]

\* a part drawn on a figure
Drawn(p, fig, mark) == [p EXCEPT !.canvas[fig] = @ \cup {mark}]

\* the statements through which a tool touches pyplot, in order:
\*   fishbone   664, 666-738, 740, 745, 747, 749     flow  783, 785-833, 836,
\*   841, 843, 845     mind map  994, 996-1036, 1039, 1044, 1046, 1048
\*   network    1093, 1094, 1096-1116, 1119-1121, 1125, 1127, 1129
\*   word cloud 1515, 1516, 1517-1518, 1523, 1525, 1527
PlotProgram(name) ==
    CASE name \in {"generate_fishbone_diagram", "generate_flow_diagram", "generate_mind_map"} ->
            <<"subplots", "ax_draw", "plt_title", "savefig", "close", "return">>
      [] name = "generate_network_graph" ->
            <<"figure", "subplots", "ax_draw", "plt_title", "savefig", "close", "return">>
      [] name = "generate_word_cloud_chart" ->
            <<"figure", "plt_draw", "plt_title", "savefig", "close", "return">>

\* the next statement of invocation c is st
At(c, st) ==
    /\ diagrams[c].pc > 0
    /\ diagrams[c].pc <= Len(PlotProgram(diagrams[c].tool))
    /\ PlotProgram(diagrams[c].tool)[diagrams[c].pc] = st

Advance(c) == [diagrams EXCEPT ![c].pc = @ + 1]

\* the body is entered with arguments it can draw
StartDiagram(c) ==
    /\ diagrams[c].pc = 0
    /\ \E tool \in DiagramTools :
        diagrams' = [diagrams EXCEPT ![c] = [@ EXCEPT !.pc = 1, !.tool = tool.name]]
    /\ UNCHANGED <<callVars, serverVars, registry, today, pyplot>>

\* plt.figure(figsize=...), lines 1093 and 1515
PltFigure(c) ==
    /\ At(c, "figure")
    /\ pyplot' = new_figure(pyplot, NextFigure(c))
    /\ diagrams' = Advance(c)
    /\ UNCHANGED <<callVars, serverVars, registry, today>>

\* fig, ax = plt.subplots(...), lines 664, 783, 994, 1094
PltSubplots(c) ==
    /\ At(c, "subplots")
    /\ pyplot' = new_figure(pyplot, NextFigure(c))
    /\ diagrams' = [diagrams EXCEPT ![c] = [@ EXCEPT !.pc = @ + 1, !.ax = NextFigure(c)]]
    /\ UNCHANGED <<callVars, serverVars, registry, today>>

\* ax.add_patch, ax.text, nx.draw_networkx_*(..., ax=ax): the arguments are
\* drawn on the axes the call holds
AxDraw(c) ==
    /\ At(c, "ax_draw")
    /\ pyplot' = Drawn(pyplot, diagrams[c].ax, <<c, "drawing">>)
    /\ diagrams' = Advance(c)
    /\ UNCHANGED <<callVars, serverVars, registry, today>>

\* plt.imshow(wordcloud, ...), line 1516: drawn on the current figure
PltDraw(c) ==
    /\ At(c, "plt_draw")
    /\ \E p \in {gcf(pyplot, NextFigure(c))} :
        pyplot' = Drawn(p, Current(p), <<c, "drawing">>)
    /\ diagrams' = Advance(c)
    /\ UNCHANGED <<callVars, serverVars, registry, today>>

\* plt.suptitle(title, ...), plt.title(title, ...), plt.axis('off'): the
\* title goes to the current figure
PltTitle(c) ==
    /\ At(c, "plt_title")
    /\ \E p \in {gcf(pyplot, NextFigure(c))} :
        pyplot' = Drawn(p, Current(p), <<c, "title">>)
    /\ diagrams' = Advance(c)
    /\ UNCHANGED <<callVars, serverVars, registry, today>>

\* plt.savefig(str(filepath), ...): the current figure is written to the file
\* of the call
PltSavefig(c) ==
    /\ At(c, "savefig")
    /\ \E p \in {gcf(pyplot, NextFigure(c))} :
        /\ pyplot' = p
        /\ diagrams' = [diagrams EXCEPT ![c] =
                            [@ EXCEPT !.pc = @ + 1, !.saved = TRUE,
                                      !.image = p.canvas[Current(p)]]]
    /\ UNCHANGED <<callVars, serverVars, registry, today>>

\* plt.close(): the current figure is closed, if there is one
PltClose(c) ==
    /\ At(c, "close")
    /\ pyplot' = [pyplot EXCEPT !.figs = SubSeq(@, 1, Len(@) - 1)]
    /\ diagrams' = Advance(c)
    /\ UNCHANGED <<callVars, serverVars, registry, today>>

\* the envelope with the URL is returned
ReturnDiagram(c) ==
    /\ At(c, "return")
    /\ diagrams' = Advance(c)
    /\ UNCHANGED <<callVars, serverVars, registry, today, pyplot>>

PlotNext ==
    \E c \in Calls :
        \/ StartDiagram(c)
        \/ PltFigure(c)
        \/ PltSubplots(c)
        \/ AxDraw(c)
        \/ PltDraw(c)
        \/ PltTitle(c)
        \/ PltSavefig(c)
        \/ PltClose(c)
        \/ ReturnDiagram(c)

PlotSpec == Init /\ [][PlotNext]_vars

\* =================================================================== claims
\* the Theme Registry lookup of a name: its entry, the "ocean" entry when the
\* name is not registered
RegistryLookup(name) ==
    IF name \in {"ocean", "sunset", "forest", "violet", "coral"}
    THEN ELEGANT_PALETTES[name] ELSE ELEGANT_PALETTES["ocean"]

ResolverReturned == op = "get_elegant_color"
PaletteAbsent == args.palette_name \in {NONE, ""}

\* C1: with an explicit (non-empty) palette_name, get_elegant_color returns the
\* primary, secondary, accent, light and gradient of the Theme Registry lookup
\* of that name ("ocean" when it is not registered), whatever chart_type and
\* data_context are.
C1_ExplicitPaletteIsLookup ==
    (ResolverReturned /\ ~PaletteAbsent) =>
        LET p == RegistryLookup(args.palette_name)
        IN  /\ ret.primary = p.primary
            /\ ret.secondary = p.secondary
            /\ ret.accent = p.accent
            /\ ret.light = p.light
            /\ ret.gradient = p.gradient

\* an explicit registered palette wins over a pie chart with a temperature
\* context; an unregistered one yields ocean's colours
C1_Witness ==
    /\ ResolverReturned
    /\ args = [chart_type |-> "pie", palette_name |-> "forest", data_context |-> "temperature"]
    /\ ret.primary = "#2D6A4F"
    /\ ret.gradient = <<"#2D6A4F", "#52B788", "#95D5B2", "#B7E4C7", "#D8F3DC">>

\* C2: the palette_name field of every value get_elegant_color returns is a key
\* of ELEGANT_PALETTES ("ocean" when nothing matched), also for palette names
\* that are not registered.
C2_PaletteNameIsRegistered ==
    ResolverReturned => ret.palette_name \in DOMAIN ELEGANT_PALETTES

SemanticKeywords == {"temperature", "sales", "progress", "comparison", "dual_axes"}

KeywordPalette(keyword) ==
    CASE keyword = "temperature" -> "sunset"
      [] keyword = "sales" -> "ocean"
      [] keyword = "progress" -> "forest"
      [] keyword \in {"comparison", "dual_axes"} -> "violet"

\* C3: with palette_name absent, a semantic keyword selects its palette whether
\* it arrives through data_context or through chart_type (temperature: sunset,
\* sales: ocean, progress: forest, comparison or dual_axes: violet); stated for
\* the calls in which the other argument names no keyword of another palette.
C3_KeywordThroughEitherArgument ==
    (ResolverReturned /\ PaletteAbsent) =>
        \A k \in SemanticKeywords :
            LET other == {j \in SemanticKeywords : KeywordPalette(j) # KeywordPalette(k)}
            IN  ( /\ args.chart_type = k \/ args.data_context = k
                  /\ args.chart_type \notin other
                  /\ args.data_context \notin other )
                => ret.palette_name = KeywordPalette(k)

\* C4: with palette_name absent and no semantic keyword in chart_type or
\* data_context, the palette is that of the static chart-type table: line,
\* column, bar, histogram: ocean; area, treemap: sunset; pie: coral; scatter:
\* violet; radar: forest; dual_axes: violet; any other chart_type, None
\* included: ocean.
C4_ChartTypeTable ==
    ( /\ ResolverReturned /\ PaletteAbsent
      /\ args.chart_type \notin SemanticKeywords \ {"dual_axes"}
      /\ args.data_context \notin SemanticKeywords )
    => ret.palette_name =
          CASE args.chart_type \in {"line", "column", "bar", "histogram"} -> "ocean"
            [] args.chart_type \in {"area", "treemap"} -> "sunset"
            [] args.chart_type = "pie" -> "coral"
            [] args.chart_type \in {"scatter", "dual_axes"} -> "violet"
            [] args.chart_type = "radar" -> "forest"
            [] OTHER -> "ocean"

\* a pie chart with no palette and a context that is no keyword gets coral
C4_Witness ==
    /\ ResolverReturned
    /\ args = [chart_type |-> "pie", palette_name |-> NONE, data_context |-> "weather"]
    /\ ret.palette_name = "coral"
    /\ ret.primary = "#FF7F7F"

\* C5: get_palette_colors returns exactly count colours, the i-th (from 0) being
\* gradient[i mod len(gradient)] of the named palette (of "ocean" when the name
\* is not registered): a count above the gradient length wraps around, a count
\* up to it gives the gradient's first count entries in order.
C5_PaletteColorsCyclic ==
    op = "get_palette_colors" =>
        LET g == RegistryLookup(args.palette_name).gradient
        IN  /\ Len(ret) = args.count
            /\ \A i \in 0..(args.count - 1) : ret[i + 1] = g[(i % Len(g)) + 1]

\* paletteColors("ocean", 8) is g0 g1 g2 g3 g4 g0 g1 g2
C5_Witness ==
    /\ op = "get_palette_colors"
    /\ args = [palette_name |-> "ocean", count |-> 8]
    /\ ret = <<"#0066CC", "#4A90E2", "#7BB3FF", "#A8CCFF", "#D4E6FF",
               "#0066CC", "#4A90E2", "#7BB3FF">>

ToolReturned == op = "tool"
Given(name) == name \in DOMAIN args.kwargs
GivenNull(name) == Given(name) /\ args.kwargs[name].t = "None"
RequiredFields == {args.tool.required[i] : i \in 1..Len(args.tool.required)}
FailedWith(template, arg) ==
    /\ ret.success = FALSE
    /\ ret.error.template = template
    /\ ret.error.arg = arg

\* C6: a call whose data argument is a string that is not valid JSON returns a
\* failure envelope carrying the parser's diagnostic, and the wrapped handler
\* is not invoked.
C6_MalformedDataShortCircuits ==
    ( /\ ToolReturned /\ Given("data") /\ IsStr(args.kwargs.data)
      /\ ~json_loads(args.kwargs.data.v).ok )
    => /\ FailedWith("data_parse_failed", DecodeDiagnostic(json_loads(args.kwargs.data.v)))
       /\ ~invoked

\* the line chart given [{"a":1,"b":2} without its closing bracket: the decoder
\* misses the ',' delimiter at character 14
C6_Witness ==
    /\ ToolReturned
    /\ args.tool.name = "generate_line_chart"
    /\ args.kwargs = [data |-> PyStr(TextTruncated), x_field |-> PyStr(<<"a">>),
                      y_field |-> PyStr(<<"a">>)]
    /\ FailedWith("data_parse_failed", [msg |-> "Expecting ',' delimiter", pos |-> 14])
    /\ ~invoked

\* C7 as stated: for every required field, a call in which it is absent (null)
\* fails with the missing-parameter (empty-parameter) error naming that field
\* and the handler is not invoked; the handler is invoked only when every
\* required field is present and non-null.
C7_EveryMissingFieldIsNamed ==
    ToolReturned =>
        /\ \A f \in RequiredFields :
              /\ ~Given(f) => (FailedWith("param_required", f) /\ ~invoked)
              /\ GivenNull(f) => (FailedWith("param_is_none", f) /\ ~invoked)
        /\ invoked => \A f \in RequiredFields : Given(f) /\ ~GivenNull(f)

\* the wrapper reaches the check of required field number i: the data stage
\* went through and every required field declared before it passes its checks
ReachesFieldCheck(i) ==
    /\ ProcessData(args.kwargs).tag = "continue"
    /\ \A j \in 1..(i - 1) :
          CheckField(args.tool.required[j], ProcessData(args.kwargs).kwargs).pass

\* C7 amended: a call in which a required field is absent or null returns a
\* failure envelope and the handler is not invoked; the error names that field
\* (missing-parameter when absent, empty-parameter when null) when its check is
\* the first to fail; the handler is invoked only when every required field is
\* present and non-null.
C7_FirstMissingFieldIsNamed ==
    ToolReturned =>
        /\ \A i \in 1..Len(args.tool.required) :
              LET f == args.tool.required[i]
              IN  /\ (~Given(f) \/ GivenNull(f)) => (ret.success = FALSE /\ ~invoked)
                  /\ (~Given(f) /\ ReachesFieldCheck(i)) => FailedWith("param_required", f)
                  /\ (GivenNull(f) /\ ReachesFieldCheck(i)) => FailedWith("param_is_none", f)
        /\ invoked => \A f \in RequiredFields : Given(f) /\ ~GivenNull(f)

\* the pie chart given good data and a label field, its value_field null
C7_Witness ==
    /\ ToolReturned
    /\ args.tool.name = "generate_pie_chart"
    /\ args.kwargs = [data |-> PyList(<<RecordA1B2>>), label_field |-> PyStr(<<"a">>),
                      value_field |-> PyNone]
    /\ FailedWith("param_is_none", "value_field")
    /\ ~invoked

\* data is an empty sequence of records: the empty list, or a text encoding it
EmptyListData ==
    /\ Given("data")
    /\ args.kwargs.data \in { PyList(<<>>), PyStr(<<"[", "]">>), PyStr(<<"[", " ", "]">>) }

\* C8: when data is declared required and is an empty sequence of records
\* (an empty list, or JSON text encoding one), the call returns the
\* empty-dataset failure and the handler is not invoked.
C8_EmptyDataRejected ==
    (ToolReturned /\ "data" \in RequiredFields /\ EmptyListData)
    => (FailedWith("param_data_empty", "data") /\ ~invoked)

\* the line chart given the text [] for data
C8_Witness ==
    /\ ToolReturned
    /\ args.tool.name = "generate_line_chart"
    /\ args.kwargs = [data |-> PyStr(<<"[", "]">>), x_field |-> PyStr(<<"a">>),
                      y_field |-> PyStr(<<"a">>)]
    /\ FailedWith("param_data_empty", "data")
    /\ ~invoked

\* C9: whenever the wrapper invokes a handler that declares data as required,
\* the data it passes is a table with at least one row, whatever the caller
\* supplied.
C9_HandlerGetsNonEmptyTable ==
    (ToolReturned /\ invoked /\ "data" \in RequiredFields)
    => (IsFrame(passed.data) /\ Len(passed.data.v.rows) >= 1)

OneRowTableA1B2 ==
    PyFrame(<<PyStr(<<"a">>), PyStr(<<"b">>)>>, << <<PyInt(1), PyInt(2)>> >>)

RecordingCallWithOneRecordText ==
    /\ ToolReturned
    /\ args.tool.required = <<"data", "a", "b">>
    /\ Given("data")
    /\ args.kwargs.data = PyStr(TextOneRecord)

\* C10 as stated: with data the text [{"a":1,"b":2}] and required fields
\* ["data","a","b"], the handler is invoked with the one-row table a=1, b=2.
C10_RoundTripFromDataAlone ==
    RecordingCallWithOneRecordText => (invoked /\ passed.data = OneRowTableA1B2)

\* C10 amended: with data the text [{"a":1,"b":2}] and required fields
\* ["data","a","b"], the handler is invoked with the one-row table a=1, b=2
\* when the call also gives non-null arguments named a and b; when it gives no
\* argument a, it fails with the missing-parameter error naming a and the
\* handler is not invoked.
C10_RoundTripWithArguments ==
    RecordingCallWithOneRecordText =>
        /\ (Given("a") /\ ~GivenNull("a") /\ Given("b") /\ ~GivenNull("b"))
              => (invoked /\ passed.data = OneRowTableA1B2)
        /\ ~Given("a") => (FailedWith("param_required", "a") /\ ~invoked)

C10_Witness ==
    /\ RecordingCallWithOneRecordText
    /\ Given("a") /\ ~GivenNull("a") /\ Given("b") /\ ~GivenNull("b")
    /\ invoked
    /\ passed.data = OneRowTableA1B2
    /\ ret.success = TRUE

\* ---------------------------------------------------------------------- C20
\* the rule of a keyword applies to a call: temperature, sales and progress
\* through either argument, comparison/dual_axes through chart_type
RuleApplies(rule) ==
    CASE rule = "temperature" -> args.chart_type = "temperature" \/ args.data_context = "temperature"
      [] rule = "sales" -> args.chart_type = "sales" \/ args.data_context = "sales"
      [] rule = "progress" -> args.chart_type = "progress" \/ args.data_context = "progress"
      [] rule = "comparison" -> args.chart_type \in {"comparison", "dual_axes"}

RuleOrder == <<"temperature", "sales", "progress", "comparison">>

\* C20: with palette_name absent, get_elegant_color applies its rules in a
\* fixed first-match-wins order: the palette is that of the first rule among
\* temperature, sales, progress, comparison/dual_axes that applies, whatever
\* later rules and the chart-type table say; chart_type 'area' with
\* data_context 'sales' gives ocean (not the table's sunset) and chart_type
\* 'dual_axes' with data_context 'temperature' gives sunset.
C20_FirstMatchWins ==
    (ResolverReturned /\ PaletteAbsent) =>
        /\ \A i \in 1..Len(RuleOrder) :
              ( /\ RuleApplies(RuleOrder[i])
                /\ \A j \in 1..(i - 1) : ~RuleApplies(RuleOrder[j]) )
              => ret.palette_name = KeywordPalette(RuleOrder[i])
        /\ (args.chart_type = "area" /\ args.data_context = "sales")
              => ret.palette_name = "ocean"
        /\ (args.chart_type = "dual_axes" /\ args.data_context = "temperature")
              => ret.palette_name = "sunset"

\* a call in which the temperature and the sales rule both apply, and the
\* table says something else again
C20_Witness ==
    /\ ResolverReturned
    /\ args = [chart_type |-> "sales", palette_name |-> NONE, data_context |-> "temperature"]
    /\ ret.palette_name = "sunset"
    /\ ret.primary = "#FF6B6B"

\* ---------------------------------------------------------------------- C18
\* C18: after any sequence of get_elegant_color calls, get_palette_colors
\* calls and chart tool invocations the Theme Registry has the contents it was
\* defined with, and get_elegant_color returns a palette for every argument
\* triple, the same one whatever was called before: its palette_name depends
\* on the arguments alone and its colours are those the registry was defined
\* with.
C18_RegistryUntouchedResolverPure ==
    /\ registry = ELEGANT_PALETTES
    /\ ResolverReturned =>
          /\ DOMAIN ret = {"primary", "secondary", "accent", "light", "gradient",
                           "palette_name"}
          /\ ret.palette_name =
                ChosenPaletteName(args.chart_type, args.palette_name, args.data_context)
          /\ \A field \in DOMAIN ret \ {"palette_name"} :
                ret[field] = RegistryLookup(ret.palette_name)[field]

\* the resolver answers with ocean's gradient as the registry defines it
C18_Witness ==
    /\ ResolverReturned
    /\ args.palette_name = "ocean"
    /\ ret.gradient = <<"#0066CC", "#4A90E2", "#7BB3FF", "#A8CCFF", "#D4E6FF">>
    /\ registry = ELEGANT_PALETTES

\* ---------------------------------------------------------------------- C11
\* the fifteen chart tools, by function name
ChartToolNames == {t.name : t \in WrappedTools \cup DiagramTools}
\* a call of one of them is over: it returned, or it let an exception out
ChartToolCalled == op \in {"tool", "diagram"} /\ args.tool.name \in ChartToolNames
ChartToolReturned == ChartToolCalled /\ escaped = NONE
ChartToolSucceeded == ChartToolReturned /\ ret.success

\* C11: every value one of the 15 chart tools returns has one of two shapes:
\* success true with image_url and message and nothing else, or success false
\* with error and nothing else.
C11_TwoEnvelopeShapes ==
    ChartToolReturned =>
        \/ DOMAIN ret = {"success", "image_url", "message"} /\ ret.success = TRUE
        \/ DOMAIN ret = {"success", "error"} /\ ret.success = FALSE

\* the word-cloud tool returns a success envelope
C11_Witness ==
    /\ ChartToolSucceeded
    /\ args.tool.name = "generate_word_cloud_chart"
    /\ DOMAIN ret = {"success", "image_url", "message"}

\* ---------------------------------------------------------------------- C12
\* C12: no call of one of the 15 chart tools lets an exception out to its
\* caller; every call ends with a returned envelope.
C12_NoExceptionEscapes == ChartToolCalled => escaped = NONE

\* ---------------------------------------------------------------------- C15
HexDigits == Digits \cup {"a", "b", "c", "d", "e", "f"}

\* the file-name prefix of each tool
PrefixOf(name) ==
    CASE name = "generate_area_chart" -> <<"a", "r", "e", "a">>
      [] name = "generate_bar_chart" -> <<"b", "a", "r">>
      [] name = "generate_column_chart" -> <<"c", "o", "l", "u", "m", "n">>
      [] name = "generate_dual_axes_chart" -> <<"d", "u", "a", "l", "_", "a", "x", "e", "s">>
      [] name = "generate_fishbone_diagram" -> <<"f", "i", "s", "h", "b", "o", "n", "e">>
      [] name = "generate_flow_diagram" -> <<"f", "l", "o", "w">>
      [] name = "generate_histogram_chart" -> <<"h", "i", "s", "t", "o", "g", "r", "a", "m">>
      [] name = "generate_line_chart" -> <<"l", "i", "n", "e">>
      [] name = "generate_mind_map" -> <<"m", "i", "n", "d", "m", "a", "p">>
      [] name = "generate_network_graph" -> <<"n", "e", "t", "w", "o", "r", "k">>
      [] name = "generate_pie_chart" -> <<"p", "i", "e">>
      [] name = "generate_radar_chart" -> <<"r", "a", "d", "a", "r">>
      [] name = "generate_scatter_chart" -> <<"s", "c", "a", "t", "t", "e", "r">>
      [] name = "generate_treemap_chart" -> <<"t", "r", "e", "e", "m", "a", "p">>
      [] name = "generate_word_cloud_chart" -> <<"w", "o", "r", "d", "c", "l", "o", "u", "d">>

\* <prefix>_<8 digits>_<9 hex digits>.png
HasNameForm(filename, prefix) ==
    LET n == Len(prefix)
    IN  /\ Len(filename) = n + 1 + 8 + 1 + 9 + 4
        /\ SubSeq(filename, 1, n) = prefix
        /\ filename[n + 1] = "_"
        /\ \A i \in (n + 2)..(n + 9) : filename[i] \in Digits
        /\ filename[n + 10] = "_"
        /\ \A i \in (n + 11)..(n + 19) : filename[i] \in HexDigits
        /\ SubSeq(filename, n + 20, n + 23) = <<".", "p", "n", "g">>

\* C15: for every tool call that returns success, the call wrote exactly one
\* file, into the output directory; image_url is the image server's base URL
\* followed by the name of that file; and the name is the invoked tool's
\* prefix, an underscore, eight digits, an underscore, nine hex digits and
\* ".png".
C15_UrlNamesTheFileWritten ==
    ChartToolSucceeded =>
        \E filename \in {Basename(f) : f \in written} :
            /\ written = {IMAGES_DIR \o <<"/">> \o filename}
            /\ ret.image_url = <<"h", "t", "t", "p", ":", "/", "/", "1", "2", "7", ".", "0", ".", "0", ".", "1", ":", "8", "0", "8", "1", "/">> \o filename
            /\ HasNameForm(filename, PrefixOf(args.tool.name))

\* the line-chart tool on the last day of 2026
C15_Witness ==
    /\ ChartToolSucceeded
    /\ args.tool.name = "generate_line_chart"
    /\ ret.image_url = <<"h", "t", "t", "p", ":", "/", "/", "1", "2", "7", ".", "0", ".", "0", ".", "1", ":", "8", "0", "8", "1", "/", "l", "i", "n", "e", "_", "2", "0", "2", "6", "1", "2", "3", "1", "_", "a", "8", "1", "d", "4", "f", "a", "e", "7", ".", "p", "n", "g">>
    /\ written = {<<"/", "i", "m", "a", "g", "e", "s", "/", "l", "i", "n", "e", "_", "2", "0", "2", "6", "1", "2", "3", "1", "_", "a", "8", "1", "d", "4", "f", "a", "e", "7", ".", "p", "n", "g">>}

\* ---------------------------------------------------------------------- C19
WordCloudCalledWithText ==
    /\ op = "diagram"
    /\ args.tool.name = "generate_word_cloud_chart"
    /\ "words" \in DOMAIN args.kwargs
    /\ IsStr(args.kwargs.words)

\* C19: a words argument given to the word-cloud tool as a string is parsed
\* as JSON before the handler body uses it: text that parses reaches the body
\* as the parsed value, text that does not ends the call with the word-data
\* parse error and the body does not run.
C19_WordsTextIsParsedFirst ==
    WordCloudCalledWithText =>
        LET r == json_loads(args.kwargs.words.v)
        IN  IF r.ok THEN invoked /\ passed.words = r.val
            ELSE /\ ~invoked
                 /\ ret = Failure("words_parse_failed", DecodeDiagnostic(r))

\* ---------------------------------------------------------------------- C13
ReturnedSuccess(c) == calls[c].pc = "returned" /\ calls[c].ret.success
Answered == ~NoExchange

\* C13: in every interleaving of tool invocations with the image server
\* thread, a call that has returned a success envelope has completed the write
\* of the file its image_url names, and a GET for a URL a client has received
\* finds the file: it is answered 200 with the file, never 404.
C13_UrlOnlyAfterWrite ==
    /\ \A c \in Calls : ReturnedSuccess(c) =>
          \E p \in DOMAIN files :
              /\ calls[c].ret.image_url = IMAGE_BASE_URL \o Basename(p)
              /\ c \notin files[p].writing
    /\ (Answered /\ exchange.command = "GET" /\ exchange.received) =>
          /\ exchange.response.status = 200
          /\ exchange.response.body.kind = "file"

\* a received URL is fetched while another call is still writing its file
C13_Witness ==
    /\ Answered /\ exchange.command = "GET" /\ exchange.received
    /\ exchange.response.status = 200
    /\ \E c \in Calls : calls[c].pc = "writing"
    /\ \E c \in Calls : ReturnedSuccess(c) /\ UrlPath(calls[c].ret.image_url) = exchange.path

\* ---------------------------------------------------------------------- C14
\* C14: any two distinct tool invocations get different file names from
\* generate_unique_filename, so the file a returned URL names is still the one
\* the call that returned it wrote.
C14_NamesAreUnique ==
    /\ \A c1, c2 \in Calls :
          (c1 # c2 /\ calls[c1].filename # <<>> /\ calls[c2].filename # <<>>)
              => calls[c1].filename # calls[c2].filename
    /\ \A c \in Calls : ReturnedSuccess(c) => files[FilePathOf(c)].writer = c

\* ---------------------------------------------------------------------- C16
\* C16: the image server sends file content only for request paths that end
\* in ".png", and answers every request for any other path with 404 and a
\* short HTML body.
C16_OnlyPngPathsServed ==
    Answered =>
        /\ exchange.response.body.kind = "file" => EndsWith(exchange.path, DOT_PNG)
        /\ ~EndsWith(exchange.path, DOT_PNG) =>
              /\ exchange.response.status = 404
              /\ exchange.response.body.kind \in {"custom_404_html", "error_page_html"}

\* ---------------------------------------------------------------------- C17
\* C17: every response of the image server carries the headers
\* Access-Control-Allow-Origin: *, Access-Control-Allow-Methods: GET, OPTIONS
\* and Access-Control-Allow-Headers: Content-Type.
C17_EveryResponseHasCors ==
    Answered =>
        { <<"Access-Control-Allow-Origin", "*">>,
          <<"Access-Control-Allow-Methods", "GET, OPTIONS">>,
          <<"Access-Control-Allow-Headers", "Content-Type">> }
            \subseteq exchange.response.headers

\* the error the inherited do_GET sends for a .png path with no file
C17_Witness ==
    /\ Answered
    /\ exchange.command = "GET"
    /\ exchange.path = <<"/", "m", "i", "s", "s", "i", "n", "g", ".", "p", "n", "g">>
    /\ exchange.response.status = 404
    /\ exchange.response.body.kind = "error_page_html"
    /\ <<"Access-Control-Allow-Origin", "*">> \in exchange.response.headers

\* a decorated tool has returned, whatever keywords the call passed
WrappedToolReturned == op \in {"tool", "tool_words"}

DataTextMalformed ==
    /\ Given("data") /\ IsStr(args.kwargs.data)
    /\ ~json_loads(args.kwargs.data.v).ok
WordsTextMalformed ==
    /\ Given("words") /\ IsStr(args.kwargs.words)
    /\ ~json_loads(args.kwargs.words.v).ok

\* the data stage has gone through: the text, if any, parsed and the list, if
\* any, became a table without a fault
DataStagePassed == ProcessData(args.kwargs).tag = "continue"

\* the check required field f fails once the wrapper gets to it, NONE when it
\* passes them all; the checks see data as the data stage left it (the text
\* null has become None, a list a table)
FieldError(f) ==
    LET normalised == ProcessData(args.kwargs).kwargs
    IN  IF f \notin DOMAIN normalised THEN "param_required"
        ELSE IF normalised[f].t = "None" THEN "param_is_none"
        ELSE IF IsFrame(normalised[f]) /\ FrameEmpty(normalised[f])
        THEN "param_data_empty"
        ELSE NONE

\* C21: the wrapper's checks run in a fixed order and stop at the first
\* failure: malformed data text is reported whatever else is wrong with the
\* call; once the data stage is through, malformed words text is reported
\* whatever the required fields are like; once both are through, of the
\* required fields that fail only the first in declaration order is reported.
C21_ChecksInFixedOrder ==
    WrappedToolReturned =>
        /\ DataTextMalformed =>
              FailedWith("data_parse_failed", DecodeDiagnostic(json_loads(args.kwargs.data.v)))
        /\ (DataStagePassed /\ WordsTextMalformed) =>
              FailedWith("words_parse_failed", DecodeDiagnostic(json_loads(args.kwargs.words.v)))
        /\ (DataStagePassed /\ ~WordsTextMalformed) =>
              \A i \in 1..Len(args.tool.required) :
                  ( /\ FieldError(args.tool.required[i]) # NONE
                    /\ \A j \in 1..(i - 1) : FieldError(args.tool.required[j]) = NONE )
                  => FailedWith(FieldError(args.tool.required[i]), args.tool.required[i])

\* the dual axes chart given [{"a":1,"b":2} without its closing bracket for
\* data, words text cut short as well, x_field and y2_field null and no
\* y1_field: the data parse error is the one reported
C21_Witness ==
    /\ op = "tool_words"
    /\ args.tool.name = "generate_dual_axes_chart"
    /\ args.kwargs = [data |-> PyStr(TextTruncated), words |-> PyStr(TextWordsTruncated),
                      x_field |-> PyNone, y2_field |-> PyNone]
    /\ FailedWith("data_parse_failed", [msg |-> "Expecting ',' delimiter", pos |-> 14])
    /\ ~invoked
\* a chart tool, decorated or not, has been called and the call is over
AnyToolCallOver == op \in {"tool", "tool_words", "diagram"}

\* the call returned a failure envelope
ReturnedFailure == escaped = NONE /\ ~ret.success

ImageAlone(c) == { <<c, "drawing">>, <<c, "title">> }

\* C23: in every interleaving of two calls, two of the matplotlib tools
\* included, the image each call writes depicts that call's own inputs only,
\* as if it had run alone.
C23_ImageShowsOwnInputsOnly ==
    \A c \in Calls : diagrams[c].saved => diagrams[c].image = ImageAlone(c)
\* C24: in generate_pie_chart, when the caller gives an explicit palette name
\* and no color_scheme, the colour sequence used for the chart is the
\* gradient of that palette as get_elegant_color resolves it.
C24_PieHonoursExplicitPalette ==
    (op = "pie_colors" /\ ~Falsy(args.palette) /\ args.color_scheme = NONE)
    => ret.colors = get_elegant_color("pie", args.palette, args.data_context).gradient
====
